---- MODULE Spec2Model ----
(***************************************************************************)
(* The exosphere high-availability scheduler (classes/scheduler.py).       *)
(*                                                                         *)
(* Several Scheduler processes share one MongoDB collection,               *)
(* exosphere.schedulers (the registry).  Each process runs                 *)
(* high_availability_scheduler: it writes its record, then loops over      *)
(* check_for_a_primary_schedulure / should_i_be_primary_scheduler /        *)
(* set_scheduler_to_primary / ensure_there_is_only_one_primary_scheduler / *)
(* am_i_still_primary_scheduler, and enters schedule() when its own record *)
(* reads back primary.                                                     *)
(*                                                                         *)
(* Granularity: one action is one registry call together with the local    *)
(* computation that follows it up to the next registry call; the calls of  *)
(* different processes interleave freely, a single call is atomic.         *)
(*                                                                         *)
(* Every registry call has two outcomes: it returns, or it raises (any     *)
(* call, any number of times).  The                                        *)
(* raising outcome is handled as the code handles it (an except clause, or *)
(* none, in which case the exception leaves high_availability_scheduler    *)
(* and the process ends).  The raising outcome also stands for the calls   *)
(* that raise by construction in CPython with pymongo:                     *)
(*   - scheduler.py:109  str + uuid.UUID raises TypeError;                 *)
(*   - scheduler.py:254  update_many is given one argument (no filter),    *)
(*     pymongo's update_many(filter, update) raises TypeError;             *)
(*   - scheduler.py:24   logging is the value of logging.basicConfig(),    *)
(*     i.e. None (configs.py:45), so logging.error inside an except clause *)
(*     raises AttributeError and the clause's return is not reached.       *)
(* The returning outcome is kept beside it, so that the protocol the code  *)
(* writes down is checked as written: every property confirmed here holds  *)
(* of both outcomes.                                                       *)
(***************************************************************************)
EXTENDS Integers, Sequences, FiniteSets

(* ------------------------------- bounds -------------------------------- *)

\* number of scheduler processes
NInst == 2

\* scores are drawn from 0..MaxScore (a score is a sum of elapsed times * 100)
MaxScore == 1

\* processes started on one host
PerHost == 2

Inst == 1..NInst

Scores == 0..MaxScore

(* -------------------------- program constants -------------------------- *)

\* scheduler.py:258  new_primary = None; no schedulerName equals it
None == 0

\* scheduler.py:257  best_score = 0
best_score == 0

VARIABLES
    registry,   \* exosphere.schedulers: the sequence of its documents
    pc,         \* per process: the registry call it makes next
    role,       \* per process: "ELECTION" (in high_availability_scheduler's
                \*   loop) or "PRIMARY" (inside schedule())
    score,      \* per process: self.scheduler_score
    found,      \* per process: primary_schedulers, the list read by
                \*   ensure_there_is_only_one_primary_scheduler
    trail,      \* history: per process, the steps of its current election
                \*   iteration: the reads and their results up to the claim,
                \*   then the claim and the reconciliation; emptied when the
                \*   iteration ends, except after a dormant iteration and
                \*   after leaving schedule(); <<"slept">> in schedule() once
                \*   an iteration has reached its sleep; <<"probe_raised">>
                \*   for a process that a raising probe has ended
    iterWith,   \* history: per process in PRIMARY, the processes that were
                \*   in PRIMARY when its current schedule() iteration began
    doneWith,   \* history: per process in PRIMARY, the processes beside
                \*   which it has completed a whole schedule() iteration
    harness,    \* the reconciliation harness (SpecRecon): completed runs
                \*   and the primaries left by the first run
    jobs,       \* exosphere.jobs: the sequence of its documents (job.py)
    now,        \* datetime.now(), in seconds
    ret         \* the last call made on a Job and what came of it

\* the variables of the job evaluation (classes/job.py)
jobvars == <<jobs, now, ret>>

vars == <<registry, pc, role, score, found, trail, iterWith, doneWith, harness,
          jobs, now, ret>>

(* --------------------------- registry calls ---------------------------- *)

\* scheduler.py:41  self.hostname, the address of the host the process runs
\* on: processes started on one host have the same one
hostname_of(name) == (name + PerHost - 1) \div PerHost

\* the documents of exosphere.schedulers (lines 108-116); lastCheckedIn is
\* kept as the number of times it was written after the insert
Document(name, scheduler_score, flag) ==
    [schedulerName |-> name, hostname |-> hostname_of(name),
     score |-> scheduler_score, primary |-> flag, lastCheckedIn |-> 0]

\* insert_one(document).  find() without a sort returns the documents in the
\* collection's natural order, which the code never relies on: names are
\* unique, should_i_be_primary_scheduler's answer is the same for every
\* order, and pick_new_primary picks nothing among scores that are not
\* negative.  The model keeps the documents in ascending schedulerName order.
insert_one(reg, doc) ==
    LET before == SelectSeq(reg, LAMBDA d : d.schedulerName < doc.schedulerName)
        after  == SelectSeq(reg, LAMBDA d : d.schedulerName > doc.schedulerName)
    IN before \o <<doc>> \o after

\* find({'primary': True}): the matching documents in natural order
find_primary(reg) == SelectSeq(reg, LAMBDA d : d.primary)

\* find({'hostname': hostname}) with the hostname of process name, the
\* self-read of the hostname-keyed scheduler (bin/scheduler.py:256-258)
find_by_hostname(reg, name) ==
    SelectSeq(reg, LAMBDA d : d.hostname = hostname_of(name))

\* find({'schedulerName': name})
find_by_name(reg, name) == SelectSeq(reg, LAMBDA d : d.schedulerName = name)

\* the position of the first document a {'schedulerName': name} filter matches,
\* 0 when there is none
first_match(reg, name) ==
    IF \E k \in DOMAIN reg : reg[k].schedulerName = name
    THEN CHOOSE k \in DOMAIN reg :
            /\ reg[k].schedulerName = name
            /\ \A m \in DOMAIN reg : reg[m].schedulerName = name => k <= m
    ELSE 0

\* update({'schedulerName': name}, {'primary': True}), the update without
\* $set: the first matching document is replaced and keeps no other field
\* of its own (the score reads as the default)
update_primary_true_replace(reg, name) ==
    LET k == first_match(reg, name) IN
    IF k = 0 THEN reg
    ELSE [reg EXCEPT ![k].primary = TRUE, ![k].score = 0]

\* update({'schedulerName': name}, {'$set': {'primary': True}}): update without
\* multi=True changes the first matching document only, none when none matches
update_primary_true(reg, name) ==
    LET k == first_match(reg, name) IN
    IF k = 0 THEN reg ELSE [reg EXCEPT ![k].primary = TRUE]

\* just_checking_in, lines 302-306: update({'schedulerName': name},
\* {'$set': {'lastCheckedIn': utcnow()}}).  The method has no call site.
just_checking_in(reg, name) ==
    LET k == first_match(reg, name) IN
    IF k = 0 THEN reg ELSE [reg EXCEPT ![k].lastCheckedIn = @ + 1]

\* update_many(..., {'$set': {'primary': False}}) over the whole collection
update_many_primary_false(reg) ==
    [k \in DOMAIN reg |-> [reg[k] EXCEPT !.primary = FALSE]]

\* schedulerNames of the documents of a list
Names(docs) == {docs[k].schedulerName : k \in DOMAIN docs}

\* the documents currently marked primary, by name
Primaries == Names(find_primary(registry))

(* ------------------- the pure parts of the handlers -------------------- *)

\* should_i_be_primary_scheduler, lines 184-190, with the comparison turned
\* round (<=), as a slip would write it
RECURSIVE should_i_be_primary_scheduler_le(_, _)
should_i_be_primary_scheduler_le(schedulers, scheduler_score) ==
    IF schedulers = << >> THEN TRUE
    ELSE LET scheduler == Head(schedulers) IN
         IF scheduler.primary THEN FALSE
         ELSE IF scheduler.score <= scheduler_score THEN FALSE
         ELSE should_i_be_primary_scheduler_le(Tail(schedulers), scheduler_score)

\* should_i_be_primary_scheduler, lines 184-190, without the test of the
\* primary flag (scores alone decide)
RECURSIVE should_i_be_primary_scheduler_noflag(_, _)
should_i_be_primary_scheduler_noflag(schedulers, scheduler_score) ==
    IF schedulers = << >> THEN TRUE
    ELSE LET scheduler == Head(schedulers) IN
         IF scheduler.score < scheduler_score THEN FALSE
         ELSE should_i_be_primary_scheduler_noflag(Tail(schedulers), scheduler_score)

\* should_i_be_primary_scheduler, lines 184-190: the loop over the documents
\* read by find({}); the first primary document or the first document with a
\* lower score returns False, the end of the list returns True
RECURSIVE should_i_be_primary_scheduler_loop(_, _)
should_i_be_primary_scheduler_loop(schedulers, scheduler_score) ==
    IF schedulers = << >> THEN TRUE
    ELSE LET scheduler == Head(schedulers) IN
         IF scheduler.primary THEN FALSE
         ELSE IF scheduler.score < scheduler_score THEN FALSE
         ELSE should_i_be_primary_scheduler_loop(Tail(schedulers), scheduler_score)

\* the value should_i_be_primary_scheduler returns when its read succeeds
should_i_be_primary_scheduler_result(schedulers, scheduler_score) ==
    should_i_be_primary_scheduler_loop(schedulers, scheduler_score)

\* ensure_there_is_only_one_primary_scheduler, line 252, with the threshold
\* off by one
more_than_one_primary_off(primary_schedulers) == Len(primary_schedulers) > 2

\* ensure_there_is_only_one_primary_scheduler, line 252:
\* if len(primary_schedulers) > 1
more_than_one_primary_eager(primary_schedulers) ==
    Len(primary_schedulers) > 0

more_than_one_primary(primary_schedulers) == Len(primary_schedulers) > 1

\* ensure_there_is_only_one_primary_scheduler, lines 257-261: the loop that
\* picks new_primary.  best_score is never assigned in the loop, so every
\* score is compared with the initial best_score; the last document whose
\* score is below it is picked, None when there is none.
RECURSIVE pick_new_primary(_, _)
pick_new_primary(primary_schedulers, new_primary) ==
    IF primary_schedulers = << >> THEN new_primary
    ELSE LET scheduler == Head(primary_schedulers) IN
         pick_new_primary(Tail(primary_schedulers),
                          IF scheduler.score < best_score
                          THEN scheduler.schedulerName
                          ELSE new_primary)

\* am_i_still_primary_scheduler, lines 284-290, trusting the presence of the
\* record instead of its status
am_i_still_primary_scheduler_present(scheduler) == scheduler # << >>

\* am_i_still_primary_scheduler, lines 284-290: the status of the first
\* document found under the own name, False when there is none
am_i_still_primary_scheduler_result(scheduler) ==
    IF scheduler # << >> THEN scheduler[1].primary ELSE FALSE

\* schedule, lines 326-327, never leaving the loop
schedule_continues_always(status) == TRUE

\* schedule, lines 326-327: if not self.am_i_still_primary_scheduler(): break
schedule_continues(status) == status

\* update_many that leaves the flags as they are (a lost clear)
update_many_lost(reg) == reg

\* ensure_there_is_only_one_primary_scheduler, lines 254-255
clear_all_primaries(reg) == update_many_primary_false(reg)

(* ------------------------------ processes ------------------------------ *)

Running(i) == pc[i] \notin {"start", "crashed", "dead", "done"}

InPrimary(i) == role[i] = "PRIMARY" /\ Running(i)

PrimarySet == {i \in Inst : InPrimary(i)}

\* history bookkeeping when process i leaves schedule()
Forget(i) ==
    /\ iterWith' = [k \in Inst |-> IF k = i THEN {} ELSE iterWith[k] \ {i}]
    /\ doneWith' = [k \in Inst |-> IF k = i THEN {} ELSE doneWith[k] \ {i}]

\* a process that ends loses its locals; role keeps where it was when it ended
Ended(i) ==
    /\ Forget(i)
    /\ found' = [found EXCEPT ![i] = << >>]
    /\ trail' = [trail EXCEPT ![i] = << >>]

\* an exception that nothing catches leaves high_availability_scheduler:
\* the process ends
Raise(i) ==
    /\ pc' = [pc EXCEPT ![i] = "crashed"]
    /\ Ended(i)
    /\ UNCHANGED <<registry, role, score, harness, jobvars>>

\* no Job is constructed by the scheduler classes: schedule() (lines 324-328)
\* and start_kicking_off_jobs (bin/scheduler.py) touch no job
NoJobs ==
    /\ jobs = << >>
    /\ now = 0
    /\ ret = [op |-> "none"]

TypeOK ==
    /\ \A k \in DOMAIN registry :
          /\ registry[k].lastCheckedIn \in Nat
          /\ registry[k] = [Document(registry[k].schedulerName,
                                     registry[k].score, registry[k].primary)
                               EXCEPT !.lastCheckedIn = registry[k].lastCheckedIn]
          /\ registry[k].schedulerName \in Inst
          /\ registry[k].score \in Scores
          /\ registry[k].primary \in BOOLEAN
    /\ pc \in [Inst -> {"start", "poll", "should", "claim", "ensure",
                        "clear", "elect", "confirm", "crashed", "dead", "done"}]
    /\ role \in [Inst -> {"ELECTION", "PRIMARY"}]
    /\ score \in [Inst -> Scores]
    /\ iterWith \in [Inst -> SUBSET Inst]
    /\ doneWith \in [Inst -> SUBSET Inst]

Init ==
    /\ registry = << >>
    /\ pc = [i \in Inst |-> "start"]
    /\ role = [i \in Inst |-> "ELECTION"]
    /\ score = [i \in Inst |-> 0]
    /\ found = [i \in Inst |-> << >>]
    /\ trail = [i \in Inst |-> << >>]
    /\ iterWith = [i \in Inst |-> {}]
    /\ doneWith = [i \in Inst |-> {}]
    /\ harness = [runs |-> 0, before |-> {}, first |-> {}]
    /\ NoJobs

\* high_availability_scheduler, lines 62-63: generate_scheduler_score sums
\* three probes (no registry call), create_scheduler_information inserts the
\* record with that score and primary False.  A probe or an insert that
\* raises is logged and re-raised (lines 155-159, 117-121).
create_scheduler_information(i) ==
    /\ pc[i] = "start"
    /\ \/ /\ \E scheduler_score \in Scores :
                /\ score' = [score EXCEPT ![i] = scheduler_score]
                /\ registry' = insert_one(registry,
                                  Document(i, scheduler_score, FALSE))
          /\ pc' = [pc EXCEPT ![i] = "poll"]
          /\ UNCHANGED <<role, found, trail, iterWith, doneWith,
                         harness, jobvars>>
       \/ \* a probe raises: generate_scheduler_score re-raises (line 159)
          /\ pc' = [pc EXCEPT ![i] = "crashed"]
          /\ trail' = [trail EXCEPT ![i] = <<"probe_raised">>]
          /\ UNCHANGED <<registry, role, score, found, iterWith, doneWith,
                         harness, jobvars>>
       \/ Raise(i)

\* line 66: the top of the election loop.  The read succeeds and the call
\* returns whether a primary document exists; or the read raises and the
\* except clause returns True (line 209); or the except clause itself
\* raises at logging.error.
check_for_a_primary_schedulure(i) ==
    /\ pc[i] = "poll"
    /\ \/ /\ LET primary_scheduler == find_primary(registry) IN
             IF primary_scheduler # << >>
             THEN /\ pc' = [pc EXCEPT ![i] = "should"]
                  /\ trail' = [trail EXCEPT ![i] = <<"check_some">>]
             ELSE /\ pc' = [pc EXCEPT ![i] = "claim"]
                  /\ trail' = [trail EXCEPT ![i] = <<"check_none">>]
          /\ UNCHANGED <<registry, role, score, found, iterWith,
                         doneWith, harness, jobvars>>
       \/ /\ pc' = [pc EXCEPT ![i] = "should"]
          /\ trail' = [trail EXCEPT ![i] = <<"check_fail">>]
          /\ UNCHANGED <<registry, role, score, found, iterWith, doneWith,
                         harness, jobvars>>
       \/ Raise(i)

\* line 71: reached when check_for_a_primary_schedulure returned True.  True
\* leads to the claim (line 72), False to the sleep and the next iteration;
\* a read that raises returns False (line 182) or raises in the clause.
should_i_be_primary_scheduler(i) ==
    /\ pc[i] = "should"
    /\ \/ /\ IF should_i_be_primary_scheduler_result(registry, score[i])
             THEN /\ pc' = [pc EXCEPT ![i] = "claim"]
                  /\ trail' = [trail EXCEPT ![i] = Append(@, "should_true")]
             ELSE /\ pc' = [pc EXCEPT ![i] = "poll"]
                  /\ trail' = [trail EXCEPT ![i] = Append(@, "should_false")]
          /\ UNCHANGED <<registry, role, score, found, iterWith,
                         doneWith, harness, jobvars>>
       \/ /\ pc' = [pc EXCEPT ![i] = "poll"]
          /\ trail' = [trail EXCEPT ![i] = << >>]
          /\ UNCHANGED <<registry, role, score, found, iterWith, doneWith,
                         harness, jobvars>>
       \/ Raise(i)

\* lines 67 and 72: the own record is set primary; a failure is logged and
\* re-raised (lines 231-235)
set_scheduler_to_primary(i) ==
    /\ pc[i] = "claim"
    /\ \/ /\ registry' = update_primary_true(registry, i)
          /\ pc' = [pc EXCEPT ![i] = "ensure"]
          /\ trail' = [trail EXCEPT ![i] = <<"set">>]
          /\ UNCHANGED <<role, score, found, iterWith, doneWith,
                         harness, jobvars>>
       \/ Raise(i)

(* ensure_there_is_only_one_primary_scheduler (lines 249-266) makes up to  *)
(* three registry calls and catches nothing: a call that raises ends the   *)
(* process.                                                                *)

\* lines 249-252: the read of the primary documents.  With at most one, the
\* function returns; inside schedule() this read opens a loop iteration.
ensure_find(i) ==
    /\ pc[i] = "ensure"
    /\ \/ /\ LET primary_schedulers == find_primary(registry) IN
             IF more_than_one_primary(primary_schedulers)
             THEN /\ pc' = [pc EXCEPT ![i] = "clear"]
                  /\ found' = [found EXCEPT ![i] = primary_schedulers]
                  /\ trail' = trail
             ELSE /\ pc' = [pc EXCEPT ![i] = "confirm"]
                  /\ found' = found
                  /\ trail' = [trail EXCEPT ![i] =
                        IF role[i] = "ELECTION" THEN Append(@, "ensure") ELSE @]
          /\ iterWith' = [iterWith EXCEPT ![i] =
                IF role[i] = "PRIMARY" THEN PrimarySet \ {i} ELSE @]
          /\ UNCHANGED <<registry, role, score, doneWith, harness, jobvars>>
       \/ Raise(i)

\* lines 254-255: every primary flag is cleared
ensure_update_many(i) ==
    /\ pc[i] = "clear"
    /\ \/ /\ registry' = clear_all_primaries(registry)
          /\ pc' = [pc EXCEPT ![i] = "elect"]
          /\ UNCHANGED <<role, score, found, trail, iterWith,
                         doneWith, harness, jobvars>>
       \/ Raise(i)

\* lines 257-266: new_primary is picked from the list read at line 249 and
\* the document of that name is set primary
ensure_update(i) ==
    /\ pc[i] = "elect"
    /\ \/ /\ registry' = update_primary_true(registry,
                                             pick_new_primary(found[i], None))
          /\ pc' = [pc EXCEPT ![i] = "confirm"]
          /\ found' = [found EXCEPT ![i] = << >>]
          /\ trail' = [trail EXCEPT ![i] =
                IF role[i] = "ELECTION" THEN Append(@, "ensure") ELSE @]
          /\ UNCHANGED <<role, score, iterWith, doneWith, harness, jobvars>>
       \/ Raise(i)

\* am_i_still_primary_scheduler (lines 280-290) and what its caller does
\* with the answer.  In the election loop (lines 69-70, 74-75): True calls
\* schedule(), False sleeps and polls again.  In schedule() (lines 326-328):
\* True sleeps and starts the next iteration, False breaks, schedule()
\* returns and the election loop sleeps and polls again.  The read is not
\* guarded: a read that raises ends the process.
am_i_still_primary_scheduler(i) ==
    /\ pc[i] = "confirm"
    /\ \/ /\ LET status == am_i_still_primary_scheduler_result(
                               find_by_name(registry, i)) IN
             IF role[i] = "ELECTION"
             THEN /\ IF status
                     THEN /\ role' = [role EXCEPT ![i] = "PRIMARY"]
                          /\ pc' = [pc EXCEPT ![i] = "ensure"]
                          /\ trail' = [trail EXCEPT ![i] = << >>]
                     ELSE /\ role' = role
                          /\ pc' = [pc EXCEPT ![i] = "poll"]
                          /\ trail' = [trail EXCEPT ![i] = << >>]
                  /\ UNCHANGED <<iterWith, doneWith>>
             ELSE IF schedule_continues(status)
                  THEN /\ pc' = [pc EXCEPT ![i] = "ensure"]
                       /\ doneWith' = [doneWith EXCEPT ![i] = @ \cup iterWith[i]]
                       /\ trail' = [trail EXCEPT ![i] = <<"slept">>]
                       /\ UNCHANGED <<role, iterWith>>
                  ELSE /\ role' = [role EXCEPT ![i] = "ELECTION"]
                       /\ pc' = [pc EXCEPT ![i] = "poll"]
                       /\ trail' = [trail EXCEPT ![i] = <<"stepped_down">>]
                       /\ Forget(i)
          /\ UNCHANGED <<registry, score, found, harness, jobvars>>
       \/ Raise(i)

\* the primary scheduler is killed (the "scheduler dies" of the class
\* docstring, lines 30-36); its record stays in the registry as it is
Die(i) ==
    /\ InPrimary(i)
    /\ pc' = [pc EXCEPT ![i] = "dead"]
    /\ Ended(i)
    /\ UNCHANGED <<registry, role, score, harness, jobvars>>

Step(i) ==
    \/ create_scheduler_information(i)
    \/ check_for_a_primary_schedulure(i)
    \/ should_i_be_primary_scheduler(i)
    \/ set_scheduler_to_primary(i)
    \/ ensure_find(i)
    \/ ensure_update_many(i)
    \/ ensure_update(i)
    \/ am_i_still_primary_scheduler(i)

Next ==
    \/ \E i \in Inst : create_scheduler_information(i)
    \/ \E i \in Inst : check_for_a_primary_schedulure(i)
    \/ \E i \in Inst : should_i_be_primary_scheduler(i)
    \/ \E i \in Inst : set_scheduler_to_primary(i)
    \/ \E i \in Inst : ensure_find(i)
    \/ \E i \in Inst : ensure_update_many(i)
    \/ \E i \in Inst : ensure_update(i)
    \/ \E i \in Inst : am_i_still_primary_scheduler(i)
    \/ \E i \in Inst : Die(i)

Spec == Init /\ [][Next]_vars

\* every process that has not ended keeps taking its next step (the loops
\* only sleep between registry calls)
FairSpec == Spec /\ \A i \in Inst : WF_vars(Step(i))

(* ---------------------- the reconciliation harness ---------------------- *)
(* ensure_there_is_only_one_primary_scheduler called twice in a row by one  *)
(* process, with no other process stepping.  The registry holds a record    *)
(* per process with any score and any primary flag: the caller has just     *)
(* set its flag (line 67), the other processes have ended and left their    *)
(* records behind.                                                          *)

InitRecon ==
    /\ registry \in {[i \in Inst |-> Document(i, sc[i], fl[i])] :
                        sc \in [Inst -> Scores], fl \in [Inst -> BOOLEAN]}
    /\ \E caller \in Inst :
          pc = [i \in Inst |-> IF i = caller THEN "ensure" ELSE "crashed"]
    /\ role = [i \in Inst |-> "ELECTION"]
    /\ score = [i \in Inst |-> registry[i].score]
    /\ found = [i \in Inst |-> << >>]
    /\ trail = [i \in Inst |-> IF pc[i] = "ensure" THEN <<"set">> ELSE << >>]
    /\ iterWith = [i \in Inst |-> {}]
    /\ doneWith = [i \in Inst |-> {}]
    /\ harness = [runs |-> 0, before |-> Primaries, first |-> {}]
    /\ NoJobs

\* the call returns to the harness, which notes what the first run left and
\* calls again
ensure_returns(i) ==
    /\ pc[i] = "confirm"
    /\ harness.runs < 2
    /\ harness' = [harness EXCEPT !.runs = @ + 1,
                                  !.first = IF harness.runs = 0
                                            THEN Primaries ELSE @]
    /\ pc' = [pc EXCEPT ![i] = IF harness.runs = 0 THEN "ensure" ELSE "done"]
    /\ trail' = [trail EXCEPT ![i] = <<"set">>]
    /\ UNCHANGED <<registry, role, score, found, iterWith, doneWith, jobvars>>

NextRecon ==
    \/ \E i \in Inst : ensure_find(i)
    \/ \E i \in Inst : ensure_update_many(i)
    \/ \E i \in Inst : ensure_update(i)
    \/ \E i \in Inst : ensure_returns(i)

SpecRecon == InitRecon /\ [][NextRecon]_vars

(* ------------------------------- claims -------------------------------- *)

\* the score of the document named n
ScoreOf(n) == registry[first_match(registry, n)].score

\* the name, among the names ns, of the document with the lowest score,
\* equal scores broken by the lowest name
Lowest(ns) ==
    CHOOSE n \in ns : \A m \in ns :
        \/ ScoreOf(n) < ScoreOf(m)
        \/ ScoreOf(n) = ScoreOf(m) /\ n <= m

\* C1: when ensure_there_is_only_one_primary_scheduler has run to completion
\* with no other writer, at most one document of the registry is primary,
\* whatever the scores and the primary flags were before.
C1_AtMostOnePrimaryAfterReconciliation ==
    \A i \in Inst : pc[i] = "confirm" => Cardinality(Primaries) <= 1

\* C1 witness: a first run has completed from a registry with two or more
\* primary documents.
C1_Witness ==
    \E i \in Inst : /\ pc[i] = "confirm"
                    /\ harness.runs = 0
                    /\ Cardinality(harness.before) > 1

\* C2: a run that found more than one primary document ends with exactly one
\* primary document, the one with the lowest score among those that were
\* primary before (equal scores broken by the lowest name).
C2_LowestScoreReelected ==
    \A i \in Inst :
        (pc[i] = "confirm" /\ harness.runs = 0 /\ Cardinality(harness.before) > 1)
            => Primaries = {Lowest(harness.before)}

\* C10: from two or more primary documents, the second run in a row leaves
\* the same single document primary as the first run did.
C10_SameSinglePrimaryTwice ==
    \A i \in Inst :
        (pc[i] = "done" /\ Cardinality(harness.before) > 1)
            => \E n \in Inst : harness.first = {n} /\ Primaries = {n}

\* the own document of process i is marked primary
OwnFlag(i) ==
    \E k \in DOMAIN registry :
        registry[k].schedulerName = i /\ registry[k].primary

\* process i calls schedule() in this step
EntersPrimary(i) == role[i] = "ELECTION" /\ role'[i] = "PRIMARY"

\* C3: a process enters PRIMARY (calls schedule()) only on a self-read that
\* returns primary=true, made after it set its own flag and after the
\* reconciliation of the same iteration; a self-read that returns false keeps
\* it in the election loop.
C3_PrimaryOnlyOnConfirmedSelfRead ==
    [][\A i \in Inst :
          /\ EntersPrimary(i) =>
                /\ pc[i] = "confirm"
                /\ trail[i] = <<"set", "ensure">>
                /\ OwnFlag(i)
          /\ (role[i] = "ELECTION" /\ pc[i] = "confirm" /\ ~OwnFlag(i))
                => role'[i] = "ELECTION"]_vars

\* C3 witness: a process has entered PRIMARY and its record is primary.
C3_Witness ==
    \E i \in Inst : InPrimary(i) /\ pc[i] = "ensure" /\ OwnFlag(i)

\* C4: once the primary has died while another process keeps running, some
\* remaining process is eventually in PRIMARY.
C4_FailoverEventually ==
    []((/\ \E i \in Inst : pc[i] = "dead"
        /\ \E j \in Inst : Running(j))
          => <>(\/ \E j \in Inst : InPrimary(j)
                \/ ~ \E j \in Inst : Running(j)))

\* C5: two processes are not both still in PRIMARY once each has completed a
\* whole further iteration of schedule() (reconciliation, then self-read)
\* begun while the other was in PRIMARY.
C5_MultiPrimaryLastsOneIteration ==
    \A i, j \in Inst :
        (i # j /\ InPrimary(i) /\ InPrimary(j))
            => ~(j \in doneWith[i] /\ i \in doneWith[j])

\* C5 witness: two processes are in PRIMARY and one of them has completed a
\* whole further iteration beside the other.
C5_Witness ==
    \E i, j \in Inst :
        i # j /\ InPrimary(i) /\ InPrimary(j) /\ j \in doneWith[i]

\* the read of check_for_a_primary_schedulure failed in the current iteration
CheckFailed(i) == trail[i] # << >> /\ Head(trail[i]) = "check_fail"

\* C6: after a failed read in check_for_a_primary_schedulure the process
\* does not set its own primary flag in that iteration.
C6_FailedReadStaysDormant ==
    [][\A i \in Inst :
          (CheckFailed(i) /\ ~OwnFlag(i)) => ~OwnFlag(i)']_vars

\* C7: a process goes on to set its own flag only on a read, the last of its
\* iteration, that shows no primary document; with a primary document in
\* that read it does not contend, whatever the scores.
C7_ContendsOnlyWithoutPrimary ==
    [][\A i \in Inst :
          (pc[i] \in {"poll", "should"} /\ pc'[i] = "claim")
              => find_primary(registry) = << >>]_vars

\* C7 witness: a process has stayed dormant on a read that showed a primary
\* although its own score is lower than the score of a primary document.
C7_Witness ==
    \E i \in Inst :
        /\ pc[i] = "poll"
        /\ trail[i] = <<"check_some", "should_false">>
        /\ \E k \in DOMAIN registry :
              registry[k].primary /\ score[i] < registry[k].score

\* should_i_be_primary_scheduler returns from a read that succeeded
ShouldAnswers(i) == pc[i] = "should" /\ Len(trail'[i]) = 2

C9_StepsDownAndReenters ==
    [][\A i \in Inst :
          /\ (role[i] = "PRIMARY" /\ pc[i] = "confirm"
                /\ pc'[i] \notin {"confirm", "crashed", "dead"})
                => IF OwnFlag(i)
                   THEN role'[i] = "PRIMARY" /\ pc'[i] = "ensure"
                   ELSE role'[i] = "ELECTION" /\ pc'[i] = "poll"
          /\ (role[i] = "PRIMARY" /\ role'[i] = "ELECTION")
                => (pc[i] = "confirm" /\ ~OwnFlag(i))
          /\ (trail[i] = <<"stepped_down">> /\ pc'[i] # pc[i])
                => (role'[i] = "ELECTION"
                      /\ pc'[i] \in {"should", "claim", "crashed"})]_vars

\* C9 witness: a process has left schedule() on a self-read that showed
\* primary=false.
C9_Witness ==
    \E i \in Inst : trail[i] = <<"stepped_down">> /\ pc[i] = "poll"

\* C11: a process whose latency probe raised during initialisation goes on:
\* it runs the election loop and its record is in the registry.
C11_ProbeFailureKeepsRunning ==
    \A i \in Inst :
        trail[i] = <<"probe_raised">>
            => (Running(i) /\ find_by_name(registry, i) # << >>)

\* C12: no step of the claim write, of the reconciliation or of the
\* self-read ends the process.
C12_RegistryFailureNotFatal ==
    [][\A i \in Inst :
          pc[i] \in {"claim", "ensure", "clear", "elect", "confirm"}
              => pc'[i] # "crashed"]_vars

\* C13: the claim write of a process changes no document but the one of its
\* own schedulerName, and a process enters PRIMARY only when the document of
\* its own schedulerName is primary, also beside a process of the same
\* hostname.
C13_OwnRecordOnly ==
    [][\A i \in Inst :
          /\ (pc[i] = "claim" /\ pc'[i] = "ensure")
                => /\ DOMAIN registry' = DOMAIN registry
                   /\ \A k \in DOMAIN registry :
                         registry[k].schedulerName # i
                             => registry'[k] = registry[k]
          /\ EntersPrimary(i)
                => \E k \in DOMAIN registry :
                      /\ registry[k].schedulerName = i
                      /\ registry[k].hostname = hostname_of(i)
                      /\ registry[k].primary]_vars

\* C13 witness: of two processes of one hostname, both with a record, one is
\* in PRIMARY on its own flag while the flag of the other is not set.
C13_Witness ==
    \E i, j \in Inst :
        /\ i # j
        /\ hostname_of(i) = hostname_of(j)
        /\ InPrimary(i) /\ OwnFlag(i)
        /\ find_by_name(registry, j) # << >> /\ ~OwnFlag(j)

\* C14: when an iteration of schedule() ends after an earlier one has ended,
\* lastCheckedIn of the process's record has been written since the insert.
C14_HeartbeatEachIteration ==
    [][\A i \in Inst :
          (role[i] = "PRIMARY" /\ trail[i] = <<"slept">>
              /\ pc[i] = "confirm" /\ pc'[i] = "ensure")
              => \E k \in DOMAIN registry' :
                    /\ registry'[k].schedulerName = i
                    /\ registry'[k].lastCheckedIn > 0]_vars

(* ------------------------- jobs (classes/job.py) ------------------------ *)
(* A Job reads its document from exosphere.jobs and answers whether it is   *)
(* ready to be published.  Times are in seconds.  A document is             *)
(*   [jobName, cron, trigger, dependencies, lastReportDate]                 *)
(* where cron is "" when the document has none ("if cron:" is false), and   *)
(* trigger is << >> when it has none, <<[unit, value]>> otherwise.          *)
(* dateKind tells what the document holds as lastReportDate: a datetime, a  *)
(* 'YYYY-MM-DD' string of that time, or nothing ("absent": the field then   *)
(* shows the default that job.get gives it at line 248).  A database        *)
(* dependency is [dbName, schema, table, column, rowExists], a field being  *)
(* "" when the dependency lacks it; rowExists is what the table of the      *)
(* external store would answer for the value asked.                         *)
(*                                                                          *)
(* Every method that reads exosphere.jobs is wrapped by connect('MONGO')    *)
(* (lib/decorators.py:62-78), and like a registry call it has two outcomes: *)
(* it returns what its body computes, or it raises.  The raising outcome    *)
(* also stands for what the wrapper does by construction: wrap_connection   *)
(* calls f(client, *args) (decorators.py:73), which puts the client before  *)
(* self, so check_if_job_is_stale(self, job_name) is called with three      *)
(* positional arguments and raises TypeError, and in                        *)
(* pull_job_info_from_mongo(self, client, job_name) the name client is      *)
(* bound to the Job, whose client.exosphere raises AttributeError.          *)
(* The values of a call are "True", "False" and "raised".                   *)

\* evaluation times are 0, 60, ..., 60 * MaxNow
MaxNow == 15

\* lastReportDate lies up to MaxAhead minutes after now ...
MaxAhead == 4

\* ... or up to MaxBack minutes before now (or before two hours ago)
MaxBack == 1

\* trigger values are 1..MaxValue
MaxValue == 2

\* job.py:222  timedelta(minutes=5)
lead_window == 300

\* job.py:77  self.schedule(delay=300)
cron_delay == 300

\* the names of the jobs: "a" is evaluated, "b" is what it may depend on
JobNames == {"a", "b"}

Nows == {60 * k : k \in 0..MaxNow}

\* now - lastReportDate
Ago ==
    {60 * m : m \in -MaxAhead..MaxBack}
        \cup {7200 - 60 * m : m \in 0..MaxBack}
        \cup {43200, 172800}

\* "61 * * * *" has no minute 61: croniter.is_valid is False for it
Crons == {"*/5 * * * *", "*/15 * * * *", "61 * * * *"}

\* "fortnights" is not a unit check_if_job_is_stale knows.  "months" is left
\* out of the inputs: monthdelta is calendar arithmetic.
Units == {"hours", "days", "fortnights"}

Raised == "raised"

Bool(b) == IF b THEN "True" ELSE "False"

\* croniter.is_valid(cron), for the expressions of Crons
croniter_is_valid(cron) == cron \in {"*/5 * * * *", "*/15 * * * *"}

\* the seconds between two fire times of a valid expression of Crons
cron_period(cron) == IF cron = "*/5 * * * *" THEN 300 ELSE 900

\* croniter(cron, t).get_next(datetime): the first fire time after t
get_next(cron, t) == ((t \div cron_period(cron)) + 1) * cron_period(cron)

\* job.py:268  the units timedelta(**{unit: value}) is built for
supported_units == {"days", "weeks", "hours", "minutes", "seconds"}

\* timedelta(**{unit: value}), in seconds
timedelta(unit, value) ==
    value * (CASE unit = "seconds" -> 1
               [] unit = "minutes" -> 60
               [] unit = "hours"   -> 3600
               [] unit = "days"    -> 86400
               [] unit = "weeks"   -> 604800)

\* find({'jobName': job_name}) (job.py:51)
find_job(docs, job_name) == SelectSeq(docs, LAMBDA d : d.jobName = job_name)

\* check_if_job_is_stale, lines 247-278, on the document it has pulled
stale_body(job, t) ==
    LET last_report_date == job.lastReportDate
        cron == job.cron
        trigger == job.trigger
    IN IF cron # ""
       THEN croniter_is_valid(cron)
               /\ last_report_date <= get_next(cron, t)
       ELSE IF trigger # << >>
            THEN LET unit == trigger[1].unit
                     value == trigger[1].value
                 IN unit \in supported_units
                       /\ last_report_date <= t - timedelta(unit, value)
            ELSE FALSE

\* check_if_job_is_stale reaches one of its comparisons of last_report_date
\* with a datetime (lines 254-257, 269-272)
compares_report_date(job) ==
    IF job.cron # ""
    THEN croniter_is_valid(job.cron)
    ELSE job.trigger # << >> /\ job.trigger[1].unit \in supported_units

\* check_if_job_is_stale, lines 233-278, made to follow the dependencies of
\* the job it is asked about: stale also when one of them is
check_if_job_is_stale_deep(connect, docs, job_name, t) ==
    IF connect = "raises" THEN Raised
    ELSE LET job == find_job(docs, job_name) IN
         IF job = << >> THEN Raised
         ELSE Bool(\/ stale_body(job[1], t)
                   \/ \E k \in DOMAIN job[1].dependencies.jobs :
                         LET dep == find_job(docs,
                                        job[1].dependencies.jobs[k]) IN
                         dep # << >> /\ stale_body(dep[1], t))

\* check_if_job_is_stale(job_name), lines 233-278.  pull_job_info_from_mongo
\* returns the first document of that name; with none it formats
\* self.job_name into its log line (line 58), an attribute no Job has, and
\* raises AttributeError.  A lastReportDate that is a string raises TypeError
\* in the comparison with a datetime.
check_if_job_is_stale(connect, docs, job_name, t) ==
    IF connect = "raises" THEN Raised
    ELSE LET job == find_job(docs, job_name) IN
         IF job = << >> THEN Raised
         ELSE IF job[1].dateKind = "str" /\ compares_report_date(job[1])
              THEN Raised
              ELSE Bool(stale_body(job[1], t))

\* get_job_next_report_date, lines 145-177: None without a trigger or without
\* a lastReportDate; strptime (line 158) raises TypeError on a datetime and
\* parses a string; then lastReportDate + timedelta for a supported unit,
\* None for another
get_job_next_report_date(job) ==
    IF job.trigger = << >> THEN [kind |-> "None", at |-> 0]
    ELSE IF job.dateKind = "absent" THEN [kind |-> "None", at |-> 0]
    ELSE IF job.dateKind = "datetime" THEN [kind |-> Raised, at |-> 0]
    ELSE IF job.trigger[1].unit \in supported_units
         THEN [kind |-> "datetime",
               at |-> job.lastReportDate
                         + timedelta(job.trigger[1].unit, job.trigger[1].value)]
         ELSE [kind |-> "None", at |-> 0]

\* util.value_exists_in_db, util.py:38-98: None (false) without db, schema,
\* column or value, and for a value that is no str, int or float; then
\* check_sql for a name ending in "sql" and check_mongo for "mongo" in any
\* case, both under connect(db), which raises for every db but 'MONGO'
\* (decorators.py:67-76)
value_exists_in_db(database, value) ==
    IF database.dbName = "" \/ database.schema = ""
          \/ database.column = "" \/ value.kind = "None"
    THEN "False"
    ELSE IF value.kind \notin {"str", "int", "float"} THEN "False"
    ELSE IF database.dbName \in {"MYSQL", "mysql"} THEN Raised
    ELSE IF database.dbName = "MONGO" THEN Bool(database.rowExists)
    ELSE IF database.dbName = "mongo" THEN Raised
    ELSE "False"

\* check_if_database_is_ready, lines 197-205, answering True whatever it is
\* asked
check_if_database_is_ready_always(database, value) == "True"

\* check_if_database_is_ready, lines 197-205
check_if_database_is_ready(database, value) ==
    IF database.dbName # "" /\ database.schema # "" /\ database.table # ""
          /\ database.column # "" /\ value.kind # "None"
    THEN value_exists_in_db(database, value)
    ELSE "False"

\* check_job_dependencies, lines 127-131: the loop over the database
\* dependencies
RECURSIVE database_dependencies_loop(_, _)
database_dependencies_loop(databases, next_report_date) ==
    IF databases = << >> THEN "True"
    ELSE LET ready == check_if_database_is_ready(Head(databases),
                                                 next_report_date) IN
         IF ready = Raised THEN Raised
         ELSE IF ready # "True" THEN "False"
         ELSE database_dependencies_loop(Tail(databases), next_report_date)

\* check_job_dependencies, line 122, without the test: no dependency holds a
\* job back
dependency_holds_back_never(stale) == FALSE

\* check_job_dependencies, lines 122-123: a stale dependency returns False
dependency_holds_back(stale) == stale = "True"

\* check_job_dependencies, lines 118-132: the loop over the job
\* dependencies, then the database branch (lines 125-131), which begins with
\* get_job_next_report_date
RECURSIVE job_dependencies_loop(_, _, _, _, _)
job_dependencies_loop(connect, docs, job, names, t) ==
    IF names = << >>
    THEN IF job.dependencies.database # << >>
         THEN LET next_report_date == get_job_next_report_date(job) IN
              IF next_report_date.kind = Raised THEN Raised
              ELSE database_dependencies_loop(job.dependencies.database,
                                              next_report_date)
         ELSE "True"
    ELSE LET stale == check_if_job_is_stale(connect, docs, Head(names), t) IN
         IF stale = Raised THEN Raised
         ELSE IF dependency_holds_back(stale) THEN "False"
         ELSE job_dependencies_loop(connect, docs, job, Tail(names), t)

check_job_dependencies(connect, docs, job, t) ==
    job_dependencies_loop(connect, docs, job, job.dependencies.jobs, t)

\* trigger_job_is_ready_for_scheduling, lines 96-101, without the test of the
\* job's own staleness
trigger_job_is_ready_on_dependencies(connect, docs, job, t) ==
    check_job_dependencies(connect, docs, job, t)

\* trigger_job_is_ready_for_scheduling, lines 96-101
trigger_job_is_ready_for_scheduling(connect, docs, job, t) ==
    LET stale == check_if_job_is_stale(connect, docs, job.jobName, t) IN
    IF stale # "True" THEN stale
    ELSE check_job_dependencies(connect, docs, job, t)

\* cron_job_is_ready_for_scheduling, lines 219-231; the calls of
\* datetime.now() in one evaluation read the same time
cron_job_is_ready_for_scheduling(connect, docs, job, t) ==
    IF croniter_is_valid(job.cron)
    THEN IF get_next(job.cron, t) > t + lead_window
         THEN check_if_job_is_stale(connect, docs, job.jobName, t)
         ELSE "False"
    ELSE "False"

\* check_requirements_and_schedule, lines 75-80: whether it returns, and the
\* delays of the calls of schedule() it has made
check_requirements_and_schedule_result(connect, docs, job, t) ==
    LET by_cron == IF job.cron # ""
                   THEN cron_job_is_ready_for_scheduling(connect, docs, job, t)
                   ELSE "False"
        by_trigger == IF job.trigger # << >>
                      THEN trigger_job_is_ready_for_scheduling(connect, docs,
                                                               job, t)
                      ELSE "False"
    IN [value |-> IF by_cron = Raised \/ by_trigger = Raised
                  THEN Raised ELSE "returned",
        published |->
            (IF by_cron = "True" THEN <<cron_delay>> ELSE << >>)
               \o (IF by_cron # Raised /\ by_trigger = "True"
                   THEN <<0>> ELSE << >>)]

\* the documents the evaluations run on
Schedules ==
    {[cron |-> c, trigger |-> << >>] : c \in Crons}
        \cup {[cron |-> "", trigger |-> <<[unit |-> u, value |-> v]>>] :
                  u \in Units, v \in 1..MaxValue}

JobDocument(name, schedule, names, last) ==
    [jobName |-> name, cron |-> schedule.cron, trigger |-> schedule.trigger,
     dependencies |-> [jobs |-> names, database |-> << >>],
     lastReportDate |-> last, dateKind |-> "datetime"]

\* job.py:248  datetime(2010, 1, 1, 1, 1), years before every evaluation time
default_report_date == 0 - 268000000

\* the database dependencies of the inputs: a complete one whose row is
\* there, one whose row is not, one without a column, one of a database
\* kind that value_exists_in_db does not know
Databases ==
    {[dbName |-> "MONGO", schema |-> "s", table |-> "t", column |-> "c",
      rowExists |-> TRUE],
     [dbName |-> "MONGO", schema |-> "s", table |-> "t", column |-> "c",
      rowExists |-> FALSE],
     [dbName |-> "MONGO", schema |-> "s", table |-> "t", column |-> "",
      rowExists |-> TRUE],
     [dbName |-> "ORACLE", schema |-> "s", table |-> "t", column |-> "c",
      rowExists |-> TRUE]}

\* a document of job a with one database dependency and a lastReportDate of
\* the given kind
WithDatabase(doc, database, kind) ==
    [doc EXCEPT !.dependencies.database = <<database>>,
                !.dateKind = kind,
                !.lastReportDate =
                    IF kind = "absent" THEN default_report_date ELSE @]

\* a document with a cron expression beside its trigger
WithCron(doc, cron) == [doc EXCEPT !.cron = cron]

\* a document of job b that names job a as its dependency
DependingOn(doc, names) == [doc EXCEPT !.dependencies.jobs = names]

\* Job(job_name).job: the document of the job under evaluation
TheJob(name) == find_job(jobs, name)[1]

InitJobs ==
    /\ registry = << >>
    /\ pc = [i \in Inst |-> "done"]
    /\ role = [i \in Inst |-> "ELECTION"]
    /\ score = [i \in Inst |-> 0]
    /\ found = [i \in Inst |-> << >>]
    /\ trail = [i \in Inst |-> << >>]
    /\ iterWith = [i \in Inst |-> {}]
    /\ doneWith = [i \in Inst |-> {}]
    /\ harness = [runs |-> 0, before |-> {}, first |-> {}]
    /\ now \in Nows
    /\ ret = [op |-> "none"]
    /\ \E sa \in Schedules, da \in Ago :
          \/ jobs = <<JobDocument("a", sa, << >>, now - da)>>
          \/ /\ sa.trigger # << >>
             /\ \/ jobs = <<JobDocument("a", sa, <<"b">>, now - da)>>
                \/ \E sb \in Schedules, db \in Ago, back \in {<< >>, <<"a">>} :
                      /\ sb.trigger # << >> => sb.trigger[1].value = 1
                      /\ db >= 0
                      /\ jobs = <<JobDocument("a", sa, <<"b">>, now - da),
                                  DependingOn(
                                      JobDocument("b", sb, << >>, now - db),
                                      back)>>
                \/ \E cron \in Crons :
                      jobs = <<WithCron(JobDocument("a", sa, << >>, now - da),
                                        cron)>>
                \/ \E database \in Databases,
                      kind \in {"datetime", "str", "absent"} :
                      /\ da >= 7200
                      /\ jobs = <<WithDatabase(
                                      JobDocument("a", sa, << >>, now - da),
                                      database, kind)>>

schedulervars ==
    <<registry, pc, role, score, found, trail, iterWith, doneWith, harness>>

\* a call of Job("a").check_requirements_and_schedule()
check_requirements_and_schedule(connect) ==
    /\ LET result == check_requirements_and_schedule_result(
                         connect, jobs, TheJob("a"), now)
       IN ret' = [op |-> "check_requirements_and_schedule", job |-> "a",
                  value |-> result.value, published |-> result.published]
    /\ UNCHANGED <<jobs, now, schedulervars>>

\* a call of Job("a").cron_job_is_ready_for_scheduling()
call_cron_job_is_ready(connect) ==
    /\ TheJob("a").cron # ""
    /\ ret' = [op |-> "cron_job_is_ready_for_scheduling", job |-> "a",
               value |-> cron_job_is_ready_for_scheduling(
                             connect, jobs, TheJob("a"), now)]
    /\ UNCHANGED <<jobs, now, schedulervars>>

\* a call of Job("a").trigger_job_is_ready_for_scheduling()
call_trigger_job_is_ready(connect) ==
    /\ TheJob("a").trigger # << >>
    /\ ret' = [op |-> "trigger_job_is_ready_for_scheduling", job |-> "a",
               value |-> trigger_job_is_ready_for_scheduling(
                             connect, jobs, TheJob("a"), now)]
    /\ UNCHANGED <<jobs, now, schedulervars>>

\* a call of Job("a").check_if_job_is_stale(job_name)
call_check_if_job_is_stale(connect, job_name) ==
    /\ ret' = [op |-> "check_if_job_is_stale", job |-> job_name,
               value |-> check_if_job_is_stale(connect, jobs, job_name, now)]
    /\ UNCHANGED <<jobs, now, schedulervars>>

Connects == {"returns", "raises"}

NextJobs ==
    \/ \E connect \in Connects : check_requirements_and_schedule(connect)
    \/ \E connect \in Connects : call_cron_job_is_ready(connect)
    \/ \E connect \in Connects : call_trigger_job_is_ready(connect)
    \/ \E connect \in Connects, job_name \in JobNames :
          call_check_if_job_is_stale(connect, job_name)

SpecJobs == InitJobs /\ [][NextJobs]_vars

(* ------------------------- claims on the jobs -------------------------- *)

\* a due time of the job has passed since its lastReportDate: a fire time of
\* its cron expression after lastReportDate and not after t, or its whole
\* trigger interval
DueSince(job, t) ==
    IF job.cron # ""
    THEN /\ croniter_is_valid(job.cron)
         /\ job.lastReportDate
               < (t \div cron_period(job.cron)) * cron_period(job.cron)
    ELSE /\ job.trigger # << >>
         /\ job.trigger[1].unit \in supported_units
         /\ t >= job.lastReportDate
                    + timedelta(job.trigger[1].unit, job.trigger[1].value)

\* the call that ret holds
Called(op) == ret.op = op

\* C15: on a valid cron expression cron_job_is_ready_for_scheduling returns
\* True exactly when the next fire time is more than 5 minutes after now and
\* check_if_job_is_stale holds of the job's document; on an invalid one it
\* returns False.
C15_CronReadyExactly ==
    Called("cron_job_is_ready_for_scheduling") =>
        LET job == TheJob("a") IN
        IF croniter_is_valid(job.cron)
        THEN ret.value = "True"
                <=> (/\ get_next(job.cron, now) > now + lead_window
                     /\ stale_body(job, now))
        ELSE ret.value = "False"

\* C16: with cron "*/5 * * * *", cron_job_is_ready_for_scheduling returns
\* True when lastReportDate is two hours before now, and False when it is
\* the next fire time minus one minute.
C16_EveryFiveMinutes ==
    (Called("cron_job_is_ready_for_scheduling")
        /\ TheJob("a").cron = "*/5 * * * *") =>
        LET job == TheJob("a") IN
        /\ job.lastReportDate = now - 7200 => ret.value = "True"
        /\ job.lastReportDate = get_next(job.cron, now) - 60
              => ret.value = "False"

\* C17: on a cron job check_if_job_is_stale returns True exactly when a fire
\* time of its expression has passed since its lastReportDate.
C17_CronStaleExactly ==
    (Called("check_if_job_is_stale") /\ find_job(jobs, ret.job) # << >>) =>
        LET job == TheJob(ret.job) IN
        croniter_is_valid(job.cron)
            => (ret.value = Bool(DueSince(job, now)))

\* C18: on a job with a trigger and no cron, a supported unit and a positive
\* value, check_if_job_is_stale returns True exactly when
\* now >= lastReportDate + value * unit.
C18_TriggerStaleExactly ==
    (Called("check_if_job_is_stale") /\ find_job(jobs, ret.job) # << >>) =>
        LET job == TheJob(ret.job) IN
        (job.cron = "" /\ job.trigger # << >>
            /\ job.trigger[1].unit \in supported_units
            /\ job.trigger[1].value > 0)
            => (ret.value = Bool(now >= job.lastReportDate
                    + timedelta(job.trigger[1].unit, job.trigger[1].value)))

\* job a names a dependency whose document is there and whose due time has
\* passed since its lastReportDate
HasStaleDependency ==
    \E k \in DOMAIN TheJob("a").dependencies.jobs :
        LET dep == find_job(jobs, TheJob("a").dependencies.jobs[k]) IN
        dep # << >> /\ DueSince(dep[1], now)

C20_BadDependencyNotReady ==
    (Called("trigger_job_is_ready_for_scheduling")
        /\ \E k \in DOMAIN TheJob("a").dependencies.jobs :
              LET dep == find_job(jobs, TheJob("a").dependencies.jobs[k]) IN
              \/ dep = << >>
              \/ /\ dep[1].cron = ""
                 /\ dep[1].trigger # << >>
                 /\ dep[1].trigger[1].unit \notin supported_units)
        => ret.value = "False"

\* job a is found ready: trigger_job_is_ready_for_scheduling has returned
\* True, or check_requirements_and_schedule has published with delay 0
FoundReady ==
    \/ Called("trigger_job_is_ready_for_scheduling") /\ ret.value = "True"
    \/ /\ Called("check_requirements_and_schedule")
       /\ \E k \in DOMAIN ret.published : ret.published[k] = 0

\* the next report date of the job can be computed, and every database
\* dependency is complete, of a known database kind, and has its row
DatabasesConfirmed(job) ==
    /\ get_job_next_report_date(job).kind = "datetime"
    /\ \A k \in DOMAIN job.dependencies.database :
          LET database == job.dependencies.database[k] IN
          /\ database.dbName \in {"MONGO", "MYSQL"}
          /\ database.schema # "" /\ database.table # ""
          /\ database.column # ""
          /\ database.rowExists

\* C21: a trigger job with database dependencies is found ready only if its
\* next report date can be computed and every database dependency is
\* complete, of a supported kind, and confirmed by the store.
C21_DatabaseDependenciesGate ==
    (TheJob("a").trigger # << >>
        /\ TheJob("a").dependencies.database # << >>)
        => (FoundReady => DatabasesConfirmed(TheJob("a")))

\* C21 witness: a trigger job whose own interval has elapsed and whose
\* database dependency lacks a column has got False.
C21_Witness ==
    /\ Called("trigger_job_is_ready_for_scheduling")
    /\ TheJob("a").dependencies.database # << >>
    /\ TheJob("a").dependencies.database[1].column = ""
    /\ stale_body(TheJob("a"), now)
    /\ ret.value = "False"

\* the trigger interval of the job has elapsed since its lastReportDate
TriggerDue(job, t) ==
    /\ job.trigger # << >>
    /\ job.trigger[1].unit \in supported_units
    /\ t >= job.lastReportDate
               + timedelta(job.trigger[1].unit, job.trigger[1].value)

\* check_requirements_and_schedule has called schedule() with this delay
Published(delay) ==
    \E k \in DOMAIN ret.published : ret.published[k] = delay

\* C22: for a job with both a cron and a trigger (and no dependencies),
\* check_requirements_and_schedule publishes with delay 300 exactly when the
\* cron path is satisfied, and with delay 0 exactly when the trigger interval
\* has elapsed since lastReportDate, whatever the cron expression is.
C22_CronAndTriggerIndependent ==
    (Called("check_requirements_and_schedule")
        /\ TheJob("a").cron # "" /\ TheJob("a").trigger # << >>) =>
        LET job == TheJob("a") IN
        /\ Published(cron_delay)
              <=> (/\ croniter_is_valid(job.cron)
                   /\ get_next(job.cron, now) > now + lead_window
                   /\ job.lastReportDate <= get_next(job.cron, now))
        /\ Published(0) <=> TriggerDue(job, now)

\* jobs a and b are trigger jobs that name each other as dependency
OnCycle ==
    /\ find_job(jobs, "b") # << >>
    /\ TheJob("a").cron = "" /\ TheJob("a").trigger # << >>
    /\ TheJob("b").cron = "" /\ TheJob("b").trigger # << >>
    /\ TheJob("a").dependencies.jobs = <<"b">>
    /\ TheJob("b").dependencies.jobs = <<"a">>

DirectOnly(docs) ==
    [k \in DOMAIN docs |->
        IF docs[k].jobName = "a" THEN docs[k]
        ELSE [docs[k] EXCEPT !.dependencies =
                                 [jobs |-> << >>, database |-> << >>]]]

\* C28: the evaluation of a job's readiness ends with True, False or an
\* exception on every dependency graph, and what it yields is what it yields
\* when the dependencies of the job's dependencies are taken away.
C28_DirectDependenciesOnly ==
    Called("trigger_job_is_ready_for_scheduling") =>
        /\ ret.value \in {"True", "False", Raised}
        /\ ret.value \in
              {trigger_job_is_ready_for_scheduling(
                   connect, DirectOnly(jobs), TheJob("a"), now) :
                       connect \in Connects}

\* C28 witness: the evaluation of a job on a dependency cycle whose own
\* interval has elapsed has returned False.
C28_Witness ==
    /\ Called("trigger_job_is_ready_for_scheduling")
    /\ OnCycle
    /\ TriggerDue(TheJob("a"), now)
    /\ ret.value = "False"

(* ---------------------- claims on the schedulers ----------------------- *)

\* C24: every step keeps every record of the registry, in its place, with
\* its schedulerName, hostname and score; a new record is only added, by the
\* process of that name.
C24_RecordsKeepIdentity ==
    [][/\ \A k \in DOMAIN registry :
             \E m \in DOMAIN registry' :
                /\ registry'[m].schedulerName = registry[k].schedulerName
                /\ registry'[m].hostname = registry[k].hostname
                /\ registry'[m].score = registry[k].score
       /\ \A m, n \in DOMAIN registry' :
             registry'[m].schedulerName = registry'[n].schedulerName => m = n
       /\ Len(registry') <= Len(registry) + 1]_vars

\* C24 witness: a process with a score above the default has set its flag,
\* a reconciliation has cleared it again, and every record is still there.
C24_Witness ==
    \E i \in Inst :
        /\ pc[i] = "confirm"
        /\ trail[i] = <<"set", "ensure">>
        /\ ~OwnFlag(i)
        /\ score[i] > 0
        /\ Len(registry) = NInst
        /\ \A k \in DOMAIN registry :
              registry[k].score = score[registry[k].schedulerName]

\* two processes of the election loop have both set their flag and are about
\* to reconcile
Contention ==
    \E i, j \in Inst :
        /\ i # j
        /\ pc[i] = "ensure" /\ role[i] = "ELECTION" /\ OwnFlag(i)
        /\ pc[j] = "ensure" /\ role[j] = "ELECTION" /\ OwnFlag(j)

\* a process has ended on an exception or was killed
SomeEnded == \E i \in Inst : pc[i] \in {"crashed", "dead"}

\* C25: after a contention, unless a process ends, exactly one process is
\* eventually in PRIMARY.
C25_ContentionResolves ==
    Contention ~> (Cardinality(PrimarySet) = 1 \/ SomeEnded)

\* process j is not contending: it has not started, is polling, or has ended
Dormant(j) ==
    /\ role[j] = "ELECTION"
    /\ pc[j] \in {"start", "poll", "should", "crashed", "dead"}

\* exactly one record is primary, its owner o is in PRIMARY, and every other
\* process is dormant
SolePrimary(o) ==
    /\ Primaries = {o}
    /\ InPrimary(o)
    /\ \A j \in Inst \ {o} : Dormant(j)

\* the flag of every record, by name
Flags == {<<registry[k].schedulerName, registry[k].primary>> :
             k \in DOMAIN registry}

\* no process ends in this step: no call raises past its handler and no
\* process is killed
NoneEnds == \A i \in Inst : pc'[i] \in {"crashed", "dead"} => pc'[i] = pc[i]

\* C26: from a state with a sole primary whose owner is in PRIMARY and all
\* others dormant, a step in which no process ends changes no primary flag
\* and leaves the owner in PRIMARY and the others dormant; and a
\* reconciliation that reads at most one primary changes no record and goes
\* on to the self read.
C26_SolePrimaryStable ==
    [][/\ \A o \in Inst :
             SolePrimary(o) /\ NoneEnds =>
                /\ SolePrimary(o)'
                /\ Flags \subseteq Flags'
                /\ Primaries' = Primaries
                /\ pc[o] \in {"ensure", "confirm"}
       /\ \A i \in Inst :
             /\ pc[i] = "ensure"
             /\ pc'[i] \notin {"ensure", "crashed", "dead"}
             /\ Cardinality(Primaries) <= 1
             => pc'[i] = "confirm" /\ registry' = registry]_vars

\* C26 witness: the owner has finished an iteration of schedule() and is in
\* the next one, while a process with a lower score has polled, found the
\* primary and gone back to polling.
C26_Witness ==
    \E o, j \in Inst :
        /\ SolePrimary(o)
        /\ pc[o] = "confirm" /\ trail[o] = <<"slept">>
        /\ j # o
        /\ pc[j] = "poll" /\ trail[j] = <<"check_some", "should_false">>
        /\ score[j] < score[o]

(* ------------- the two schedulers side by side (C27) ------------------- *)
(* bin/scheduler.py is the older copy of classes/scheduler.py.  Its        *)
(* documents carry no _id and no schedulerName, and its three keyed        *)
(* registry calls filter on {'hostname': ...}; schedule() is the election  *)
(* loop, and a True self-read calls start_kicking_off_jobs() and breaks.   *)
(* The two are run on one interleaving: each step is the next registry     *)
(* call of one instance, made in both systems with the same score and the  *)
(* same outcome of the call.  Both systems are kept in harness, the run    *)
(* stops when an instance enters PRIMARY in either system.                 *)

\* one host per instance, or PerHost instances on a host
HostMaps == {[i \in Inst |-> i], [i \in Inst |-> hostname_of(i)]}

\* the document an instance on host hostname inserts; in bin/scheduler.py
\* (lines 85-91) schedulerName stands for the _id the registry gives it
HostDocument(name, hostname, scheduler_score) ==
    [Document(name, scheduler_score, FALSE) EXCEPT !.hostname = hostname]

\* bin/scheduler.py:256-258  find({'hostname': self.hostname})
bin_find(reg, hostname) == SelectSeq(reg, LAMBDA d : d.hostname = hostname)

\* the position of the first document a {'hostname': hostname} filter
\* matches, 0 when there is none
bin_first_match(reg, hostname) ==
    IF \E k \in DOMAIN reg : reg[k].hostname = hostname
    THEN CHOOSE k \in DOMAIN reg :
            /\ reg[k].hostname = hostname
            /\ \A m \in DOMAIN reg : reg[m].hostname = hostname => k <= m
    ELSE 0

\* bin/scheduler.py:202-205 and 238-241
\* update({'hostname': hostname}, {'$set': {'primary': True}})
bin_update_primary_true(reg, hostname) ==
    LET k == bin_first_match(reg, hostname) IN
    IF k = 0 THEN reg ELSE [reg EXCEPT ![k].primary = TRUE]

\* bin/scheduler.py:232-236  the loop that picks new_primary, a hostname
RECURSIVE bin_pick_new_primary(_, _)
bin_pick_new_primary(primary_schedulers, new_primary) ==
    IF primary_schedulers = << >> THEN new_primary
    ELSE LET scheduler == Head(primary_schedulers) IN
         bin_pick_new_primary(Tail(primary_schedulers),
                              IF scheduler.score < best_score
                              THEN scheduler.hostname
                              ELSE new_primary)

\* the outcomes of a registry call: it returns; it raises and the except
\* clause returns its value; it raises and nothing returns
Outcomes == {"returns", "caught", "raises"}

\* a system before any instance has started
NewSystem ==
    [registry |-> << >>,
     pc       |-> [i \in Inst |-> "start"],
     score    |-> [i \in Inst |-> 0],
     found    |-> [i \in Inst |-> << >>]]

\* instance i makes its next registry call in the system sys of the given
\* variant and goes on to the call after it.  classes/scheduler.py:
\* high_availability_scheduler (lines 62-78) and the handlers it calls;
\* bin/scheduler.py: schedule (lines 37-56) and the handlers it calls.
\* "scheduling" is schedule() in classes, start_kicking_off_jobs() in bin.
ha_step(variant, sys, hostname, i, outcome, scheduler_score) ==
    LET at == sys.pc[i]
        goto(p) == [sys EXCEPT !.pc[i] = p]
    IN
    IF at \in {"crashed", "scheduling"} THEN sys
    ELSE IF outcome = "raises" THEN goto("crashed")
    ELSE IF at = "start" THEN
        [sys EXCEPT !.registry = insert_one(@,
                        HostDocument(i, hostname, scheduler_score)),
                    !.score[i] = scheduler_score,
                    !.pc[i] = "poll"]
    ELSE IF at = "poll" THEN
        IF outcome = "caught" THEN goto("should")
        ELSE IF find_primary(sys.registry) # << >>
             THEN goto("should") ELSE goto("claim")
    ELSE IF at = "should" THEN
        IF outcome = "caught" THEN goto("poll")
        ELSE IF should_i_be_primary_scheduler_result(sys.registry,
                                                     sys.score[i])
             THEN goto("claim") ELSE goto("poll")
    ELSE IF at = "claim" THEN
        [sys EXCEPT !.registry = IF variant = "classes"
                                 THEN update_primary_true(@, i)
                                 ELSE bin_update_primary_true(@, hostname),
                    !.pc[i] = "ensure"]
    ELSE IF at = "ensure" THEN
        LET primary_schedulers == find_primary(sys.registry) IN
        IF more_than_one_primary(primary_schedulers)
        THEN [sys EXCEPT !.found[i] = primary_schedulers, !.pc[i] = "clear"]
        ELSE goto("confirm")
    ELSE IF at = "clear" THEN
        [sys EXCEPT !.registry = clear_all_primaries(@), !.pc[i] = "elect"]
    ELSE IF at = "elect" THEN
        [sys EXCEPT !.registry =
                        IF variant = "classes"
                        THEN update_primary_true(@,
                                 pick_new_primary(sys.found[i], None))
                        ELSE bin_update_primary_true(@,
                                 bin_pick_new_primary(sys.found[i], None)),
                    !.found[i] = << >>,
                    !.pc[i] = "confirm"]
    ELSE \* at = "confirm"
        IF am_i_still_primary_scheduler_result(
               IF variant = "classes" THEN find_by_name(sys.registry, i)
               ELSE bin_find(sys.registry, hostname))
        THEN goto("scheduling") ELSE goto("poll")

\* the calls whose except clause returns a value (classes lines 205-209 and
\* 178-182, bin lines 180-184 and 153-157)
Catches(at) == at \in {"poll", "should"}

\* no instance has entered PRIMARY in either system
NoneScheduling ==
    \A i \in Inst : /\ harness.classes.pc[i] # "scheduling"
                    /\ harness.bin.pc[i] # "scheduling"

InitPair ==
    /\ registry = << >>
    /\ pc = [i \in Inst |-> "done"]
    /\ role = [i \in Inst |-> "ELECTION"]
    /\ score = [i \in Inst |-> 0]
    /\ found = [i \in Inst |-> << >>]
    /\ trail = [i \in Inst |-> << >>]
    /\ iterWith = [i \in Inst |-> {}]
    /\ doneWith = [i \in Inst |-> {}]
    /\ \E hosts \in HostMaps :
          harness = [classes |-> NewSystem, bin |-> NewSystem, hosts |-> hosts]
    /\ NoJobs

PairUnchanged ==
    UNCHANGED <<registry, pc, role, score, found, trail, iterWith, doneWith,
                jobvars>>

\* the first step of an instance: the probes and the insert.  A probe or an
\* unreachable registry fails both systems.  The insert of classes/ also
\* raises where the insert of bin/ returns: line 109 builds the _id from
\* str + uuid.UUID, bin/ has no such line.
pair_create_scheduler_information(i) ==
    /\ NoneScheduling
    /\ harness.classes.pc[i] = "start"
    /\ harness.bin.pc[i] = "start"
    /\ \E scheduler_score \in Scores :
       \E oc, ob \in {"returns", "raises"} :
          /\ ob = "raises" => oc = "raises"
          /\ harness' = [harness EXCEPT
                !.classes = ha_step("classes", @, harness.hosts[i], i, oc,
                                    scheduler_score),
                !.bin = ha_step("bin", @, harness.hosts[i], i, ob,
                                scheduler_score)]
    /\ PairUnchanged

\* a later step of an instance that runs in both systems: its next registry
\* call in each, with one outcome
pair_step(i) ==
    /\ NoneScheduling
    /\ harness.classes.pc[i] \notin {"start", "crashed"}
    /\ harness.bin.pc[i] \notin {"start", "crashed"}
    /\ \E outcome \in Outcomes :
          /\ outcome = "caught" =>
                Catches(harness.classes.pc[i]) /\ Catches(harness.bin.pc[i])
          /\ harness' = [harness EXCEPT
                !.classes = ha_step("classes", @, harness.hosts[i], i,
                                    outcome, 0),
                !.bin = ha_step("bin", @, harness.hosts[i], i, outcome, 0)]
    /\ PairUnchanged

\* a step of an instance that has ended in classes/ and runs on in bin/
bin_step(i) ==
    /\ NoneScheduling
    /\ harness.classes.pc[i] = "crashed"
    /\ harness.bin.pc[i] \notin {"start", "crashed"}
    /\ \E outcome \in Outcomes :
          /\ outcome = "caught" => Catches(harness.bin.pc[i])
          /\ harness' = [harness EXCEPT
                !.bin = ha_step("bin", @, harness.hosts[i], i, outcome, 0)]
    /\ PairUnchanged

NextPair ==
    \/ \E i \in Inst : pair_create_scheduler_information(i)
    \/ \E i \in Inst : pair_step(i)
    \/ \E i \in Inst : bin_step(i)

SpecPair == InitPair /\ [][NextPair]_vars

\* the primary flag of the record of instance i in a registry, FALSE when
\* it has none
FlagIn(reg, i) == \E k \in DOMAIN reg : reg[k].schedulerName = i /\ reg[k].primary

\* all instances have pairwise distinct hostnames
DistinctHostnames ==
    \A i, j \in Inst : harness.hosts[i] = harness.hosts[j] => i = j

\* C27: with pairwise distinct hostnames, up to the first entry into
\* PRIMARY every instance is at the same place of the election loop in both
\* systems (it contends, stays dormant, or has entered PRIMARY in both) and
\* its record has the same primary flag in both.
C27_SameDecisions ==
    DistinctHostnames =>
        \A i \in Inst :
            /\ harness.classes.pc[i] = harness.bin.pc[i]
            /\ FlagIn(harness.classes.registry, i)
                  = FlagIn(harness.bin.registry, i)

====
